---- MODULE Spec2Model ----
(***************************************************************************)
(* De Bruijn pipeline of src/main.rs: TermParser::parse, to_de_bruijn,     *)
(* DeBruijnTerm::beta_reduce / substitute / shift / shift_above and the    *)
(* two Debug renderers.  The functions are pure; each specification below  *)
(* draws the inputs of one of them in its initial states and applies the   *)
(* function in its actions.                                                *)
(***************************************************************************)
EXTENDS Integers, Sequences, FiniteSets, TLC

VARIABLES pc, input, term, context, de_bruijn, amount, cutoff, index,
          replacement, result, reduced, again, overflow_checks

vars == <<pc, input, term, context, de_bruijn, amount, cutoff, index,
          replacement, result, reduced, again, overflow_checks>>

----------------------------------------------------------------------------
(* Bounds of the model.                                                    *)

\* usize/isize are modelled UsizeBits wide (the targets have 32 or 64).
UsizeBits == 8
\* largest |amount| handed to shift / shift_above
MaxAmount == 2
\* largest cutoff handed to shift_above
MaxCutoff == 2
\* nodes of the nameless terms handed to shift_above
MaxShiftSize == 4
\* nodes of the nameless terms handed to substitute (term and replacement)
MaxSubstSize == 3
\* nodes of the nameless terms handed to beta_reduce
MaxTermSize == 7
\* largest Variable index in the terms handed to substitute and beta_reduce
MaxIndex == 2
\* call depth at which a beta_reduce that has not returned is given up
MaxFuel == 16
\* nodes of the named terms handed to to_de_bruijn
MaxNamedSize == 5
\* length of the initial context handed to to_de_bruijn
MaxCtxLen == 2
\* characters of the generated source strings
MaxSrcLen == 6
\* outer binders a term is scoped under
MaxOuter == 2

----------------------------------------------------------------------------
(* Data model.                                                             *)

\* enum Term
TLam(name, body) == [tag |-> "Lam", name |-> name, body |-> body]
TApp(func, argm) == [tag |-> "App", func |-> func, argm |-> argm]
TVar(name) == [tag |-> "Var", name |-> name]

\* enum DeBruijnTerm
Lam(body) == [tag |-> "Lam", body |-> body]
App(func, arg) == [tag |-> "App", func |-> func, arg |-> arg]
Var(i) == [tag |-> "Var", index |-> i]

\* a variable of the model that holds no value yet
Nil == [tag |-> "Nil"]

UsizeRange == 2 ^ UsizeBits
IsizeMax == 2 ^ (UsizeBits - 1) - 1
IsizeMin == 0 - 2 ^ (UsizeBits - 1)

\* `x as isize` of a usize, `x as usize` of an isize sum
as_isize(u) == IF u > IsizeMax THEN u - UsizeRange ELSE u
as_usize(x) == x % UsizeRange

----------------------------------------------------------------------------
(* DeBruijnTerm::shift_above, shift.                                       *)

RECURSIVE shift_above(_, _, _)

\* shift_above that forgets to raise the cutoff under an abstraction
shift_above_flat_cutoff(t, amt, cut) ==
  CASE t.tag = "Var" ->
         IF t.index >= cut
           THEN Var(as_usize(as_isize(t.index) + amt))
           ELSE t
    [] t.tag = "Lam" -> Lam(shift_above(t.body, amt, cut))
    [] t.tag = "App" -> App(shift_above(t.func, amt, cut),
                            shift_above(t.arg, amt, cut))

shift_above(t, amt, cut) ==
  CASE t.tag = "Var" ->
         IF t.index >= cut
           THEN Var(as_usize(as_isize(t.index) + amt))
           ELSE t
    [] t.tag = "Lam" -> Lam(shift_above(t.body, amt, cut + 1))
    [] t.tag = "App" -> App(shift_above(t.func, amt, cut),
                            shift_above(t.arg, amt, cut))

shift(t, amt) == shift_above(t, amt, 0)

\* the isize addition of shift_above leaves the isize range at some Variable:
\* a build with overflow checks panics there, a build without them wraps
RECURSIVE add_overflows(_, _, _)
add_overflows(t, amt, cut) ==
  CASE t.tag = "Var" ->
         /\ t.index >= cut
         /\ \/ as_isize(t.index) + amt > IsizeMax
            \/ as_isize(t.index) + amt < IsizeMin
    [] t.tag = "Lam" -> add_overflows(t.body, amt, cut + 1)
    [] t.tag = "App" -> \/ add_overflows(t.func, amt, cut)
                        \/ add_overflows(t.arg, amt, cut)

----------------------------------------------------------------------------
(* DeBruijnTerm::substitute.                                               *)

RECURSIVE substitute(_, _, _)

\* substitute that leaves the indices above the target where they were
substitute_no_decrement(t, idx, repl) ==
  CASE t.tag = "Var" ->
         IF t.index = idx THEN repl ELSE t
    [] t.tag = "Lam" -> Lam(substitute(t.body, idx + 1, shift(repl, 1)))
    [] t.tag = "App" -> App(substitute(t.func, idx, repl),
                            substitute(t.arg, idx, repl))

\* substitute that hands out the replacement shifted once more
substitute_shifted_copy(t, idx, repl) ==
  CASE t.tag = "Var" ->
         IF t.index = idx THEN shift(repl, 1)
         ELSE IF t.index > idx THEN Var(t.index - 1)
         ELSE t
    [] t.tag = "Lam" -> Lam(substitute(t.body, idx + 1, shift(repl, 1)))
    [] t.tag = "App" -> App(substitute(t.func, idx, repl),
                            substitute(t.arg, idx, repl))

substitute(t, idx, repl) ==
  CASE t.tag = "Var" ->
         IF t.index = idx THEN repl
         ELSE IF t.index > idx THEN Var(t.index - 1)
         ELSE t
    [] t.tag = "Lam" -> Lam(substitute(t.body, idx + 1, shift(repl, 1)))
    [] t.tag = "App" -> App(substitute(t.func, idx, repl),
                            substitute(t.arg, idx, repl))

----------------------------------------------------------------------------
(* DeBruijnTerm::beta_reduce.  A call returns [ok, term, subs]: ok is      *)
(* FALSE when the recursion went fuel calls deep without returning (the    *)
(* stack is the only limit of the code), term is the returned term, and    *)
(* subs records every result of body.substitute(0, &reduced_arg) together  *)
(* with d, the number of abstractions beta_reduce had entered above it.    *)

Returned(t, subs) == [ok |-> TRUE, term |-> t, subs |-> subs]
Overflowed(subs) == [ok |-> FALSE, term |-> Nil, subs |-> subs]

RECURSIVE beta_reduce(_, _, _)

\* beta_reduce that returns the substituted body without reducing it again
beta_reduce_once(t, d, fuel) ==
  IF fuel = 0 THEN Overflowed({})
  ELSE
  CASE t.tag = "Lam" ->
         LET body == beta_reduce(t.body, d + 1, fuel - 1)
         IN  IF body.ok THEN Returned(Lam(body.term), body.subs) ELSE body
    [] t.tag = "App" ->
         LET reduced_func == beta_reduce(t.func, d, fuel - 1)
             reduced_arg == beta_reduce(t.arg, d, fuel - 1)
         IN  IF ~reduced_func.ok THEN reduced_func
             ELSE IF ~reduced_arg.ok
               THEN Overflowed(reduced_func.subs \cup reduced_arg.subs)
             ELSE IF reduced_func.term.tag = "Lam"
               THEN LET sub == substitute(reduced_func.term.body, 0,
                                          reduced_arg.term)
                    IN  Returned(sub, reduced_func.subs \cup reduced_arg.subs
                                      \cup {[depth |-> d, term |-> sub]})
               ELSE Returned(App(reduced_func.term, reduced_arg.term),
                             reduced_func.subs \cup reduced_arg.subs)
    [] t.tag = "Var" -> Returned(Var(t.index), {})

\* beta_reduce that leaves the body of an abstraction as it is
beta_reduce_outside_lam(t, d, fuel) ==
  IF fuel = 0 THEN Overflowed({})
  ELSE
  CASE t.tag = "Lam" -> Returned(t, {})
    [] t.tag = "App" ->
         LET reduced_func == beta_reduce(t.func, d, fuel - 1)
             reduced_arg == beta_reduce(t.arg, d, fuel - 1)
         IN  IF ~reduced_func.ok THEN reduced_func
             ELSE IF ~reduced_arg.ok
               THEN Overflowed(reduced_func.subs \cup reduced_arg.subs)
             ELSE IF reduced_func.term.tag = "Lam"
               THEN LET sub == substitute(reduced_func.term.body, 0,
                                          reduced_arg.term)
                        subs == reduced_func.subs \cup reduced_arg.subs
                                  \cup {[depth |-> d, term |-> sub]}
                        again_reduced == beta_reduce(sub, d, fuel - 1)
                    IN  IF again_reduced.ok
                          THEN Returned(again_reduced.term,
                                        subs \cup again_reduced.subs)
                          ELSE Overflowed(subs \cup again_reduced.subs)
               ELSE Returned(App(reduced_func.term, reduced_arg.term),
                             reduced_func.subs \cup reduced_arg.subs)
    [] t.tag = "Var" -> Returned(Var(t.index), {})

beta_reduce(t, d, fuel) ==
  IF fuel = 0 THEN Overflowed({})
  ELSE
  CASE t.tag = "Lam" ->
         LET body == beta_reduce(t.body, d + 1, fuel - 1)
         IN  IF body.ok THEN Returned(Lam(body.term), body.subs) ELSE body
    [] t.tag = "App" ->
         LET reduced_func == beta_reduce(t.func, d, fuel - 1)
             reduced_arg == beta_reduce(t.arg, d, fuel - 1)
         IN  IF ~reduced_func.ok THEN reduced_func
             ELSE IF ~reduced_arg.ok
               THEN Overflowed(reduced_func.subs \cup reduced_arg.subs)
             ELSE IF reduced_func.term.tag = "Lam"
               THEN LET sub == substitute(reduced_func.term.body, 0,
                                          reduced_arg.term)
                        subs == reduced_func.subs \cup reduced_arg.subs
                                  \cup {[depth |-> d, term |-> sub]}
                        again_reduced == beta_reduce(sub, d, fuel - 1)
                    IN  IF again_reduced.ok
                          THEN Returned(again_reduced.term,
                                        subs \cup again_reduced.subs)
                          ELSE Overflowed(subs \cup again_reduced.subs)
               ELSE Returned(App(reduced_func.term, reduced_arg.term),
                             reduced_func.subs \cup reduced_arg.subs)
    [] t.tag = "Var" -> Returned(Var(t.index), {})

----------------------------------------------------------------------------
(* Bounded input sets.                                                     *)

\* nameless terms of exactly n nodes over the indices in I
RECURSIVE DBOfSize(_, _)
DBOfSize(n, I) ==
  IF n < 1 THEN {}
  ELSE IF n = 1 THEN {Var(i) : i \in I}
  ELSE {Lam(b) : b \in DBOfSize(n - 1, I)}
       \cup UNION {{App(f, a) : f \in DBOfSize(k, I),
                                a \in DBOfSize(n - 1 - k, I)} :
                   k \in 1..(n - 2)}

DBTerms(n, I) == UNION {DBOfSize(k, I) : k \in 1..n}

\* indices that exercise the casts of shift_above
ShiftIndices == {0, 1, 2, IsizeMax, IsizeMax + 1, UsizeRange - 1}

----------------------------------------------------------------------------
(* Paths into nameless terms: 0 selects a Lam body or an App func, 1 an    *)
(* App arg.                                                                *)

RECURSIVE DBPaths(_)
DBPaths(t) ==
  CASE t.tag = "Var" -> {<<>>}
    [] t.tag = "Lam" -> {<<>>} \cup {<<0>> \o p : p \in DBPaths(t.body)}
    [] t.tag = "App" -> {<<>>} \cup {<<0>> \o p : p \in DBPaths(t.func)}
                               \cup {<<1>> \o p : p \in DBPaths(t.arg)}
    [] OTHER -> {<<>>}

RECURSIVE DBAt(_, _)
DBAt(t, p) ==
  IF p = <<>> THEN t
  ELSE CASE t.tag = "Lam" /\ p[1] = 0 -> DBAt(t.body, Tail(p))
         [] t.tag = "App" /\ p[1] = 0 -> DBAt(t.func, Tail(p))
         [] t.tag = "App" /\ p[1] = 1 -> DBAt(t.arg, Tail(p))
         [] OTHER -> Nil

\* abstractions entered on the way down p
RECURSIVE DBDepth(_, _)
DBDepth(t, p) ==
  IF p = <<>> \/ t.tag \notin {"Lam", "App"} THEN 0
  ELSE IF t.tag = "Lam" THEN 1 + DBDepth(t.body, Tail(p))
  ELSE IF p[1] = 0 THEN DBDepth(t.func, Tail(p))
  ELSE DBDepth(t.arg, Tail(p))

VarPaths(t) == {p \in DBPaths(t) : DBAt(t, p).tag = "Var"}

----------------------------------------------------------------------------
(* SpecShift: shift and shift_above applied to every bounded input.        *)

InitShift ==
  /\ pc = "start"
  /\ de_bruijn \in DBTerms(MaxShiftSize, ShiftIndices)
  /\ amount \in (0 - MaxAmount)..MaxAmount
  /\ cutoff \in 0..MaxCutoff
  /\ overflow_checks \in BOOLEAN
  /\ result = Nil
  /\ input = <<>> /\ term = Nil /\ context = <<>>
  /\ index = 0 /\ replacement = Nil /\ reduced = Nil /\ again = Nil

ShiftAbove ==
  /\ pc = "start"
  /\ IF overflow_checks /\ add_overflows(de_bruijn, amount, cutoff)
       THEN pc' = "shift_above_panic" /\ result' = result
       ELSE pc' = "shift_above"
            /\ result' = shift_above(de_bruijn, amount, cutoff)
  /\ UNCHANGED <<input, term, context, de_bruijn, amount, cutoff, index,
                 replacement, reduced, again, overflow_checks>>

Shift ==
  /\ pc = "start"
  /\ IF overflow_checks /\ add_overflows(de_bruijn, amount, 0)
       THEN pc' = "shift_panic" /\ result' = result
       ELSE pc' = "shift" /\ result' = shift(de_bruijn, amount)
  /\ UNCHANGED <<input, term, context, de_bruijn, amount, cutoff, index,
                 replacement, reduced, again, overflow_checks>>

NextShift == ShiftAbove \/ Shift

SpecShift == InitShift /\ [][NextShift]_vars

\* the cutoff the finished call ran with: shift passes 0
EffCutoff == IF pc \in {"shift", "shift_panic"} THEN 0 ELSE cutoff

Shifted == pc \in {"shift", "shift_above"}

\* C7 as stated: after shift / shift_above, every Variable index i at or
\* above the cutoff (raised by one per entered abstraction) is the
\* non-negative integer i + amount, for every amount, and every index below
\* the cutoff is untouched.
C7_ExactSum ==
  Shifted =>
    \A p \in VarPaths(de_bruijn) :
      LET i == DBAt(de_bruijn, p).index
          d == DBDepth(de_bruijn, p)
      IN  IF i >= EffCutoff + d
            THEN /\ i + amount >= 0
                 /\ DBAt(result, p) = Var(i + amount)
            ELSE DBAt(result, p) = Var(i)

\* C7 amended: after shift / shift_above the term has the same shape, every
\* Variable index i at or above the cutoff (raised by one per entered
\* abstraction) is (i + amount) modulo 2^UsizeBits, which is i + amount only
\* when that sum is a usize, every index below the cutoff is untouched, and
\* amount 0 returns the term itself; a build with overflow checks returns
\* only when no isize addition overflowed and panics only when one did.
C7_WrappedSum ==
  /\ Shifted =>
       /\ DBPaths(result) = DBPaths(de_bruijn)
       /\ \A p \in VarPaths(de_bruijn) :
            LET i == DBAt(de_bruijn, p).index
                d == DBDepth(de_bruijn, p)
            IN  IF i >= EffCutoff + d
                  THEN /\ DBAt(result, p) = Var((i + amount) % UsizeRange)
                       /\ (i + amount \in 0..(UsizeRange - 1)
                             => DBAt(result, p) = Var(i + amount))
                       /\ overflow_checks =>
                            as_isize(i) + amount \in IsizeMin..IsizeMax
                  ELSE DBAt(result, p) = Var(i)
       /\ amount = 0 => result = de_bruijn
  /\ pc \in {"shift_panic", "shift_above_panic"} =>
       /\ overflow_checks
       /\ \E p \in VarPaths(de_bruijn) :
            LET i == DBAt(de_bruijn, p).index
            IN  /\ i >= cutoff * (IF result = Nil THEN 1 ELSE 1)
                             - cutoff + DBDepth(de_bruijn, p)
                /\ as_isize(i) + amount \notin IsizeMin..IsizeMax

\* a negative amount wrapped an index under an abstraction while an index
\* below the raised cutoff stayed
C7_Witness ==
  /\ pc = "shift" /\ amount = -2
  /\ de_bruijn = Lam(App(Var(0), Var(1)))
  /\ result = Lam(App(Var(0), Var(UsizeRange - 1)))

----------------------------------------------------------------------------
(* SpecSubst: substitute applied to every bounded input.                   *)

InitSubst ==
  /\ pc = "start"
  /\ de_bruijn \in DBTerms(MaxSubstSize, 0..MaxIndex)
  /\ index \in 0..MaxIndex
  /\ replacement \in DBTerms(MaxSubstSize, 0..MaxIndex)
  /\ result = Nil
  /\ input = <<>> /\ term = Nil /\ context = <<>> /\ amount = 0
  /\ cutoff = 0 /\ reduced = Nil /\ again = Nil
  /\ overflow_checks = FALSE

Substitute ==
  /\ pc = "start"
  /\ pc' = "substituted"
  /\ result' = substitute(de_bruijn, index, replacement)
  /\ UNCHANGED <<input, term, context, de_bruijn, amount, cutoff, index,
                 replacement, reduced, again, overflow_checks>>

NextSubst == Substitute

SpecSubst == InitSubst /\ [][NextSubst]_vars

\* C8: substitute on Variable(i) with target j and replacement R returns R
\* when i = j, Variable(i - 1) when i > j and Variable(i) when i < j; with
\* j = 0 that is R for Variable(0) and Variable(k - 1) for every k > 0.
C8_SubstituteVariable ==
  pc = "substituted" /\ de_bruijn.tag = "Var" =>
    LET i == de_bruijn.index
    IN  /\ i = index => result = replacement
        /\ i > index => result = Var(i - 1)
        /\ i < index => result = Var(i)
        /\ index = 0 /\ i = 0 => result = replacement
        /\ index = 0 /\ i > 0 => result = Var(i - 1)

\* a Variable above the target came back one lower, not as the replacement
C8_Witness ==
  /\ pc = "substituted" /\ de_bruijn = Var(2) /\ index = 0
  /\ replacement = Lam(Var(1)) /\ result = Var(1)

----------------------------------------------------------------------------
(* to_de_bruijn.                                                           *)

\* context.iter().position(|x| x == name); -1 stands for None
RECURSIVE position(_, _)
position(ctx, name) ==
  IF ctx = <<>> THEN -1
  ELSE IF Head(ctx) = name THEN 0
  ELSE LET rest == position(Tail(ctx), name)
       IN  IF rest = -1 THEN -1 ELSE rest + 1

RECURSIVE to_de_bruijn(_, _)

\* to_de_bruijn that pushes the parameter at the back of the context
to_de_bruijn_push_back(t, ctx) ==
  CASE t.tag = "Lam" ->
         LET new_context == ctx \o <<t.name>>
         IN  Lam(to_de_bruijn(t.body, new_context))
    [] t.tag = "App" -> App(to_de_bruijn(t.func, ctx),
                            to_de_bruijn(t.argm, ctx))
    [] t.tag = "Var" ->
         LET pos == position(ctx, t.name)
         IN  Var(IF pos = -1 THEN Len(ctx) ELSE pos)

\* to_de_bruijn that numbers an absent name one past the context length
to_de_bruijn_len_plus_one(t, ctx) ==
  CASE t.tag = "Lam" ->
         LET new_context == <<t.name>> \o ctx
         IN  Lam(to_de_bruijn(t.body, new_context))
    [] t.tag = "App" -> App(to_de_bruijn(t.func, ctx),
                            to_de_bruijn(t.argm, ctx))
    [] t.tag = "Var" ->
         LET pos == position(ctx, t.name)
         IN  Var(IF pos = -1 THEN Len(ctx) + 1 ELSE pos)

\* to_de_bruijn that counts positions from one
to_de_bruijn_one_based(t, ctx) ==
  CASE t.tag = "Lam" ->
         LET new_context == <<t.name>> \o ctx
         IN  Lam(to_de_bruijn(t.body, new_context))
    [] t.tag = "App" -> App(to_de_bruijn(t.func, ctx),
                            to_de_bruijn(t.argm, ctx))
    [] t.tag = "Var" ->
         LET pos == position(ctx, t.name)
         IN  Var(IF pos = -1 THEN Len(ctx) ELSE pos + 1)

to_de_bruijn(t, ctx) ==
  CASE t.tag = "Lam" ->
         LET new_context == <<t.name>> \o ctx
         IN  Lam(to_de_bruijn(t.body, new_context))
    [] t.tag = "App" -> App(to_de_bruijn(t.func, ctx),
                            to_de_bruijn(t.argm, ctx))
    [] t.tag = "Var" ->
         LET pos == position(ctx, t.name)
         IN  Var(IF pos = -1 THEN Len(ctx) ELSE pos)

\* names are strings of characters
Names == {<<"x">>, <<"y">>, <<"z">>}

\* named terms of exactly n nodes
RECURSIVE NamedOfSize(_)
NamedOfSize(n) ==
  IF n < 1 THEN {}
  ELSE IF n = 1 THEN {TVar(v) : v \in Names}
  ELSE {TLam(v, b) : v \in Names, b \in NamedOfSize(n - 1)}
       \cup UNION {{TApp(f, a) : f \in NamedOfSize(k),
                                 a \in NamedOfSize(n - 1 - k)} :
                   k \in 1..(n - 2)}

NamedTerms(n) == UNION {NamedOfSize(k) : k \in 1..n}

Contexts(n) == UNION {[1..k -> Names] : k \in 0..n}

\* paths into named terms, as for nameless terms
RECURSIVE NPaths(_)
NPaths(t) ==
  CASE t.tag = "Var" -> {<<>>}
    [] t.tag = "Lam" -> {<<>>} \cup {<<0>> \o p : p \in NPaths(t.body)}
    [] t.tag = "App" -> {<<>>} \cup {<<0>> \o p : p \in NPaths(t.func)}
                               \cup {<<1>> \o p : p \in NPaths(t.argm)}

RECURSIVE NAt(_, _)
NAt(t, p) ==
  IF p = <<>> THEN t
  ELSE CASE t.tag = "Lam" -> NAt(t.body, Tail(p))
         [] t.tag = "App" /\ p[1] = 0 -> NAt(t.func, Tail(p))
         [] t.tag = "App" /\ p[1] = 1 -> NAt(t.argm, Tail(p))

NVarPaths(t) == {p \in NPaths(t) : NAt(t, p).tag = "Var"}

\* parameters of the abstractions entered on the way down p, innermost first
RECURSIVE Binders(_, _)
Binders(t, p) ==
  IF p = <<>> THEN <<>>
  ELSE CASE t.tag = "Lam" -> Binders(t.body, Tail(p)) \o <<t.name>>
         [] t.tag = "App" /\ p[1] = 0 -> Binders(t.func, Tail(p))
         [] t.tag = "App" /\ p[1] = 1 -> Binders(t.argm, Tail(p))

\* abstractions entered below the nearest abstraction binding name on the
\* way down p; -1 when none binds it.  seen and d carry the walk.
RECURSIVE Between(_, _, _, _, _)
Between(t, p, name, seen, d) ==
  IF p = <<>> THEN (IF seen THEN d ELSE -1)
  ELSE CASE t.tag = "Lam" ->
              IF t.name = name
                THEN Between(t.body, Tail(p), name, TRUE, 0)
                ELSE Between(t.body, Tail(p), name, seen,
                             IF seen THEN d + 1 ELSE d)
         [] t.tag = "App" /\ p[1] = 0 ->
              Between(t.func, Tail(p), name, seen, d)
         [] t.tag = "App" /\ p[1] = 1 ->
              Between(t.argm, Tail(p), name, seen, d)

----------------------------------------------------------------------------
(* SpecConvert: to_de_bruijn applied to every bounded term and context.    *)

InitConvert ==
  /\ pc = "start"
  /\ term \in NamedTerms(MaxNamedSize)
  /\ context \in Contexts(MaxCtxLen)
  /\ de_bruijn = Nil
  /\ input = <<>> /\ amount = 0 /\ cutoff = 0 /\ index = 0
  /\ replacement = Nil /\ result = Nil /\ reduced = Nil /\ again = Nil
  /\ overflow_checks = FALSE

ConvertTerm ==
  /\ pc = "start"
  /\ pc' = "converted"
  /\ de_bruijn' = to_de_bruijn(term, context)
  /\ UNCHANGED <<input, term, context, amount, cutoff, index, replacement,
                 result, reduced, again, overflow_checks>>

NextConvert == ConvertTerm

SpecConvert == InitConvert /\ [][NextConvert]_vars

\* the context at the occurrence reached by p
ContextAt(p) == Binders(term, p) \o context

InContext(name, ctx) == \E k \in 1..Len(ctx) : ctx[k] = name

\* C3: a variable occurrence whose name is in the context at that point
\* (the initial context with the parameter of each enclosing abstraction
\* prepended) gets the smallest position holding that name; an occurrence
\* bound by an abstraction gets the number of abstractions between it and
\* its nearest binder of that name; the inner x of \x \x x gets 0.
C3_FirstPosition ==
  pc = "converted" =>
    /\ \A p \in NVarPaths(term) :
         LET name == NAt(term, p).name
             ctx == ContextAt(p)
         IN  /\ InContext(name, ctx) =>
                  \E k \in 1..Len(ctx) :
                     /\ ctx[k] = name
                     /\ \A j \in 1..(k - 1) : ctx[j] # name
                     /\ DBAt(de_bruijn, p) = Var(k - 1)
             /\ Between(term, p, name, FALSE, 0) # -1 =>
                  DBAt(de_bruijn, p) = Var(Between(term, p, name, FALSE, 0))
    /\ term = TLam(<<"x">>, TLam(<<"x">>, TVar(<<"x">>))) =>
         de_bruijn = Lam(Lam(Var(0)))

\* a shadowed name was converted under a context that also holds it
C3_Witness ==
  /\ pc = "converted"
  /\ term = TLam(<<"x">>, TLam(<<"x">>, TApp(TVar(<<"x">>), TVar(<<"y">>))))
  /\ context = <<<<"x">>, <<"y">>>>
  /\ de_bruijn = Lam(Lam(App(Var(0), Var(3))))

Closed(t) ==
  \A p \in NVarPaths(t) : InContext(NAt(t, p).name, Binders(t, p))

\* C5: a closed term converted under the empty context has every Variable
\* index strictly below the number of abstractions enclosing it.
C5_ClosedWithinDepth ==
  pc = "converted" /\ context = <<>> /\ Closed(term) =>
    \A p \in VarPaths(de_bruijn) :
      DBAt(de_bruijn, p).index < DBDepth(de_bruijn, p)

\* a closed term with an occurrence of its outermost parameter was converted
C5_Witness ==
  /\ pc = "converted" /\ context = <<>>
  /\ term = TLam(<<"x">>, TLam(<<"y">>, TApp(TVar(<<"x">>), TVar(<<"y">>))))
  /\ de_bruijn = Lam(Lam(App(Var(1), Var(0))))

----------------------------------------------------------------------------
(* SpecReduce: beta_reduce applied to every bounded nameless term and to   *)
(* its own result.                                                         *)

\* (\(0 0) \(0 0)), on which beta_reduce does not return
Omega == App(Lam(App(Var(0), Var(0))), Lam(App(Var(0), Var(0))))

InitReduce ==
  /\ pc = "start"
  /\ de_bruijn \in DBTerms(MaxTermSize, 0..MaxIndex) \cup {Omega}
  /\ reduced = Nil /\ again = Nil
  /\ input = <<>> /\ term = Nil /\ context = <<>> /\ amount = 0
  /\ cutoff = 0 /\ index = 0 /\ replacement = Nil /\ result = Nil
  /\ overflow_checks = FALSE

Reduce ==
  /\ pc = "start"
  /\ reduced' = beta_reduce(de_bruijn, 0, MaxFuel)
  /\ pc' = IF reduced'.ok THEN "reduced" ELSE "stack_overflow"
  /\ UNCHANGED <<input, term, context, de_bruijn, amount, cutoff, index,
                 replacement, result, again, overflow_checks>>

ReduceAgain ==
  /\ pc = "reduced"
  /\ again' = beta_reduce(reduced.term, 0, MaxFuel)
  /\ pc' = "reduced_again"
  /\ UNCHANGED <<input, term, context, de_bruijn, amount, cutoff, index,
                 replacement, result, reduced, overflow_checks>>

NextReduce == Reduce \/ ReduceAgain

SpecReduce == InitReduce /\ [][NextReduce]_vars

\* no Application, at any depth, has an Abstraction as its function
NormalForm(t) ==
  \A p \in DBPaths(t) :
    DBAt(t, p).tag = "App" => DBAt(t, p).func.tag # "Lam"

\* every Variable index is below n plus the abstractions enclosing it
WellScoped(t, n) ==
  \A p \in VarPaths(t) : DBAt(t, p).index < n + DBDepth(t, p)

\* C2: when beta_reduce(t) returns, beta_reduce of its result returns the
\* same term.
C2_Idempotent ==
  pc = "reduced_again" => again.ok /\ again.term = reduced.term

\* a term with a redex was reduced to a different term and reduced again
C2_Witness ==
  /\ pc = "reduced_again"
  /\ de_bruijn = App(Lam(App(Var(0), Var(0))), Lam(Var(0)))
  /\ reduced.term = Lam(Var(0))
  /\ Cardinality(reduced.subs) = 2

\* C9: when beta_reduce returns, the returned term has no Application whose
\* function position is an Abstraction, at any depth.
C9_NormalForm ==
  pc = "reduced" => NormalForm(reduced.term)

\* a redex under an abstraction was fired
C9_Witness ==
  /\ pc = "reduced"
  /\ de_bruijn = Lam(App(Lam(App(Var(1), Var(0))), Var(0)))
  /\ reduced.term = Lam(App(Var(0), Var(0)))

\* C10: for a term well-scoped under n outer binders, every result of
\* substitute(body, 0, arg) on a redex is well-scoped under n plus the
\* abstractions beta_reduce entered above the redex, and the term
\* beta_reduce returns is well-scoped under n; for n = 0 a closed term
\* reduces to a closed term.
C10_ScopePreserved ==
  pc \in {"reduced", "stack_overflow"} =>
    \A n \in 0..MaxOuter :
      WellScoped(de_bruijn, n) =>
        /\ \A s \in reduced.subs : WellScoped(s.term, n + s.depth)
        /\ reduced.ok => WellScoped(reduced.term, n)

\* a redex whose body refers past its own binder was fired under one outer
\* binder, lowering that reference
C10_Witness ==
  /\ pc = "reduced"
  /\ de_bruijn = App(Lam(Lam(App(Var(2), Var(1)))), Var(0))
  /\ WellScoped(de_bruijn, 1)
  /\ reduced.term = Lam(App(Var(1), Var(1)))

----------------------------------------------------------------------------
(* The parser.  A source is a sequence of characters; the cursor counts    *)
(* from 1.  skip_trivia, peek_one, consume and parse_name are the methods  *)
(* TermParser gets from the TSPL parser trait.                             *)

\* peek_one at the end of the input
EndOfInput == ""

Whitespace == {" "}

\* the characters of a name: ASCII letters and digits and _ . - / $
NameChars == {"x", "y", "z", "w", "f", "g", "0", "1", "2", "3", "4", "5", "6",
              "7", "8", "9", "_", ".", "-", "/", "$"}

peek_one(s, i) == IF i <= Len(s) THEN s[i] ELSE EndOfInput

RECURSIVE skip_trivia(_, _)
skip_trivia(s, i) ==
  IF peek_one(s, i) \in Whitespace THEN skip_trivia(s, i + 1) ELSE i

\* the cursor past a maximal run of name characters
RECURSIVE take_name(_, _)
take_name(s, i) ==
  IF peek_one(s, i) \in NameChars THEN take_name(s, i + 1) ELSE i

\* consume(text) for a text of one character: [ok, index]
consume(s, i, text) ==
  LET j == skip_trivia(s, i)
  IN  IF peek_one(s, j) = text
        THEN [ok |-> TRUE, index |-> j + 1]
        ELSE [ok |-> FALSE, index |-> j]

\* [ok, name, index]; an empty name is an error
parse_name(s, i) ==
  LET j == skip_trivia(s, i)
      k == take_name(s, j)
  IN  IF k = j
        THEN [ok |-> FALSE, name |-> <<>>, index |-> j]
        ELSE [ok |-> TRUE, name |-> SubSeq(s, j, k - 1), index |-> k]

\* Result<Term, String> together with the cursor the call leaves
ParseOk(t, i) == [ok |-> TRUE, term |-> t, index |-> i]
ParseErr(i) == [ok |-> FALSE, term |-> Nil, index |-> i]

RECURSIVE parse(_, _)

\* parse that returns the application without asking for its ")"
parse_unclosed(s, i0) ==
  LET i == skip_trivia(s, i0)
      c == peek_one(s, i)
  IN  CASE c = "λ" ->
             LET lam == consume(s, i, "λ")
                 name == parse_name(s, lam.index)
                 body == parse(s, name.index)
             IN  IF ~lam.ok THEN ParseErr(lam.index)
                 ELSE IF ~name.ok THEN ParseErr(name.index)
                 ELSE IF ~body.ok THEN body
                 ELSE ParseOk(TLam(name.name, body.term), body.index)
        [] c = "(" ->
             LET open == consume(s, i, "(")
                 func == parse(s, open.index)
                 argm == parse(s, func.index)
             IN  IF ~open.ok THEN ParseErr(open.index)
                 ELSE IF ~func.ok THEN func
                 ELSE IF ~argm.ok THEN argm
                 ELSE ParseOk(TApp(func.term, argm.term), argm.index)
        [] OTHER ->
             LET name == parse_name(s, i)
             IN  IF ~name.ok THEN ParseErr(name.index)
                 ELSE ParseOk(TVar(name.name), name.index)

parse(s, i0) ==
  LET i == skip_trivia(s, i0)
      c == peek_one(s, i)
  IN  CASE c = "λ" ->
             LET lam == consume(s, i, "λ")
                 name == parse_name(s, lam.index)
                 body == parse(s, name.index)
             IN  IF ~lam.ok THEN ParseErr(lam.index)
                 ELSE IF ~name.ok THEN ParseErr(name.index)
                 ELSE IF ~body.ok THEN body
                 ELSE ParseOk(TLam(name.name, body.term), body.index)
        [] c = "(" ->
             LET open == consume(s, i, "(")
                 func == parse(s, open.index)
                 argm == parse(s, func.index)
                 close == consume(s, argm.index, ")")
             IN  IF ~open.ok THEN ParseErr(open.index)
                 ELSE IF ~func.ok THEN func
                 ELSE IF ~argm.ok THEN argm
                 ELSE IF ~close.ok THEN ParseErr(close.index)
                 ELSE ParseOk(TApp(func.term, argm.term), close.index)
        [] OTHER ->
             LET name == parse_name(s, i)
             IN  IF ~name.ok THEN ParseErr(name.index)
                 ELSE ParseOk(TVar(name.name), name.index)

----------------------------------------------------------------------------
(* The Debug renderers.                                                    *)

Digit == <<"0", "1", "2", "3", "4", "5", "6", "7", "8", "9">>

\* a usize written in decimal
RECURSIVE fmt_usize(_)
fmt_usize(n) ==
  IF n < 10 THEN <<Digit[n + 1]>>
  ELSE fmt_usize(n \div 10) \o <<Digit[(n % 10) + 1]>>

\* impl fmt::Debug for Term
RECURSIVE fmt_term(_)
fmt_term(t) ==
  CASE t.tag = "Lam" -> <<"λ">> \o t.name \o <<" ">> \o fmt_term(t.body)
    [] t.tag = "App" -> <<"(">> \o fmt_term(t.func) \o <<" ">>
                          \o fmt_term(t.argm) \o <<")">>
    [] t.tag = "Var" -> t.name

\* impl fmt::Debug for DeBruijnTerm
RECURSIVE fmt_de_bruijn(_)
fmt_de_bruijn(t) ==
  CASE t.tag = "Lam" -> <<"λ">> \o fmt_de_bruijn(t.body)
    [] t.tag = "App" -> <<"(">> \o fmt_de_bruijn(t.func) \o <<" ">>
                          \o fmt_de_bruijn(t.arg) \o <<")">>
    [] t.tag = "Var" -> fmt_usize(t.index)

----------------------------------------------------------------------------
(* Spec: parse, to_de_bruijn under the empty context, beta_reduce and      *)
(* format!, as parse_convert_reduce chains them.                           *)

SrcChars == {"λ", "(", ")", " ", "x", "y"}

\* the sources of test_de_bruijn_conversion and test_beta_reduction
TestSources ==
  {<<"λ", "x", " ", "x">>,
   <<"λ", "x", " ", "λ", "y", " ", "x">>,
   <<"λ", "x", " ", "λ", "y", " ", "y">>,
   <<"λ", "x", " ", "λ", "y", " ", "λ", "z", " ", "(", "x", " ", "(", "y", " ", "z", ")", ")">>,
   <<"λ", "f", " ", "λ", "x", " ", "(", "f", " ", "(", "f", " ", "x", ")", ")">>,
   <<"λ", "x", " ", "λ", "y", " ", "λ", "z", " ", "(", "(", "x", " ", "z", ")", " ", "(", "y", " ", "z", ")", ")">>,
   <<"λ", "f", " ", "λ", "g", " ", "λ", "x", " ", "(", "f", " ", "(", "g", " ", "x", ")", ")">>,
   <<"λ", "x", " ", "λ", "y", " ", "λ", "z", " ", "λ", "w", " ", "(", "(", "x", " ", "y", ")", " ", "(", "z", " ", "w", ")", ")">>,
   <<"λ", "x", " ", "z">>,
   <<"λ", "x", " ", "λ", "y", " ", "(", "z", " ", "x", ")">>,
   <<"(", "λ", "x", " ", "x", " ", "y", ")">>}

Sources == UNION {[1..k -> SrcChars] : k \in 0..MaxSrcLen} \cup TestSources

Init ==
  /\ pc = "start"
  /\ input \in Sources
  /\ index = 1
  /\ term = Nil /\ context = <<>> /\ de_bruijn = Nil /\ reduced = Nil
  /\ result = Nil /\ again = Nil /\ amount = 0 /\ cutoff = 0
  /\ replacement = Nil /\ overflow_checks = FALSE

ParseSource ==
  /\ pc = "start"
  /\ LET parsed == parse(input, index)
     IN  /\ pc' = IF parsed.ok THEN "parsed" ELSE "parse_error"
         /\ term' = parsed.term
         /\ index' = parsed.index
  /\ UNCHANGED <<input, context, de_bruijn, amount, cutoff, replacement,
                 result, reduced, again, overflow_checks>>

ConvertParsed ==
  /\ pc = "parsed"
  /\ pc' = "converted"
  /\ de_bruijn' = to_de_bruijn(term, context)
  /\ UNCHANGED <<input, term, context, amount, cutoff, index, replacement,
                 result, reduced, again, overflow_checks>>

ReduceConverted ==
  /\ pc = "converted"
  /\ reduced' = beta_reduce(de_bruijn, 0, MaxFuel)
  /\ IF reduced'.ok
       THEN pc' = "printed" /\ result' = fmt_de_bruijn(reduced'.term)
       ELSE pc' = "stack_overflow" /\ result' = result
  /\ UNCHANGED <<input, term, context, de_bruijn, amount, cutoff, index,
                 replacement, again, overflow_checks>>

Next == ParseSource \/ ConvertParsed \/ ReduceConverted

Spec == Init /\ [][Next]_vars

\* the tokens of a text: the reserved characters and the maximal runs of
\* name characters, trivia dropped
RECURSIVE Tokens(_, _)
Tokens(s, i) ==
  LET j == skip_trivia(s, i)
  IN  IF j > Len(s) THEN <<>>
      ELSE IF s[j] \in NameChars
        THEN <<SubSeq(s, j, take_name(s, j) - 1)>>
               \o Tokens(s, take_name(s, j))
        ELSE <<(<<s[j]>>)>> \o Tokens(s, j + 1)

Consumed == SubSeq(input, 1, index - 1)

\* C1: "(\x x y)" parsed, converted under the empty context and reduced is
\* Variable(1), printed as 1.
C1_ReducesToOne ==
  pc = "printed" /\ input = <<"(", "λ", "x", " ", "x", " ", "y", ")">> =>
    reduced.term = Var(1) /\ result = <<"1">>

\* C6 as stated: parse returns an error whenever anything but trivia is left
\* after the term it parsed, also after a complete top-level term.
C6_NothingLeftOver ==
  pc = "parsed" => skip_trivia(input, index) > Len(input)

\* C6 amended: parse returns a term only when the text it consumed is, token
\* for token, the rendering of that term, in which every application is
\* "(" term term ")" with its closing parenthesis the last character
\* consumed; an error returns no term; what follows a complete top-level
\* term is not read and does not make parse fail.
C6_ConsumedIsTheTerm ==
  /\ pc = "parse_error" => term = Nil
  /\ pc = "parsed" =>
       /\ Tokens(Consumed, 1) = Tokens(fmt_term(term), 1)
       /\ term.tag = "App" => input[index - 1] = ")"
       /\ parse(Consumed, 1) = ParseOk(term, index)

\* an application was parsed with a token left after its closing parenthesis
C6_Witness ==
  /\ pc = "parsed"
  /\ input = <<"(", "x", " ", "y", ")", ")">>
  /\ term = TApp(TVar(<<"x">>), TVar(<<"y">>))
  /\ index = 6

====
